---- MODULE Spec2Model ----
(***************************************************************************)
(* Validation / override pipeline of the CCAM coding backend.              *)
(*                                                                         *)
(* The request handlers of backend/app/api are coroutines (async def): a   *)
(* handler runs without interruption from one await to the next, so each   *)
(* action below is one such segment.  The only awaits of the handlers      *)
(* modelled here are the ledger call of blockchain_service and the         *)
(* suggestion call (ai_service.generate_suggestions).  Background tasks    *)
(* registered with background_tasks.add_task run after the response has    *)
(* been sent.                                                              *)
(*                                                                         *)
(* The suggestion service of agent_ai (AIService.generate_suggestions) is  *)
(* a second state machine, SpecAI, over its own variables: the cache and   *)
(* one record per generate_suggestions call.  Its segments are delimited   *)
(* by the two provider calls (the awaits in call_llm).                     *)
(***************************************************************************)
EXTENDS Integers, Sequences, FiniteSets, TLC

(* ----------------------------- bounds ---------------------------------- *)
\* number of requests issued in one behaviour
NumCalls == 2
\* number of act rows that can be created
NumActs == 1

(* ------------------------ program constants ---------------------------- *)
\* validation.py:59  "acte.score_confiance < 50"
ConfidenceThreshold == 50

\* Acte.score_confiance is nullable (models/acte.py:24); NoScore stands for None
NoScore == -1
\* score_confiance values a suggestion can store on an act
Scores == {0, 40, 50}
\* CCAM codes; NoCode stands for None (code_ccam_suggere / code_ccam_final nullable)
NoCode == "none"
Codes == {"HHFA001", "DZQM006"}
\* the code of the first candidate of a suggestion result
SuggestedCodes == {"HHFA001"}
\* the code a caller of create_override corrects (code_ccam_original)
OriginalCodes == {"HHFA001"}
\* the code a caller of create_override puts in its place (code_ccam_override)
OverrideCodes == {"DZQM006"}
\* the justification of an override request: empty, or some text
Justifications == {"", "motif"}
\* values an update gives the clinical description (a new act holds "d0")
Descs == {"d1"}

Calls == 1..NumCalls
ActIds == 1..NumActs

(* ------------- suggestion service: bounds and constants ---------------- *)
\* number of generate_suggestions calls issued in one behaviour
NumSuggestCalls == 2
\* number of POST /actes requests whose steps are followed, and the act
\* numbers they ask for
NumCreates == 3
CreateCalls == 1..NumCreates
Numeros == {1, 2}
\* the number of rule checks that are compared
MaxRuleCalls == 4
\* ai_service.py:129  "ttl=3600"
CacheTTL == 3600
\* ai_service.py:335  "score_confiance + 5"
ScoreBonus == 5
\* ai_service.py:340  "score_confiance - 10"
ScorePenalty == 10
\* ai_service.py:336 "100", and le=100 of the response models (27, 35)
ScoreMax == 100
\* ai_service.py:341 "0", and ge=0 of the response models (27, 35)
ScoreMin == 0
\* ai_service.py:362  "description_clinique[:100]"
DescPrefixLen == 100

SuggestCalls == 1..NumSuggestCalls

\* strings are sequences of character codes
Comma == <<44>>
\* acte_data: the fields of an act that generate_suggestions reads
ActeData ==
    {[type_acte |-> <<99>>, description_clinique |-> d, duree_acte |-> 30,
      modificateurs |-> <<>>] : d \in {<<100, 49>>, <<100, 50>>}}

\* a description of more than DescPrefixLen characters, ending in last
LongDesc(last) == [i \in 1..DescPrefixLen |-> 120] \o <<last>>
\* the features of acts whose cache keys are compared: types "c" and "cd";
\* descriptions "d", "1", "d1" and two long ones that differ after the
\* prefix; durations 5 and 15; modifier lists over "a" and "b"
KeyTypes == {<<99>>, <<99, 100>>}
KeyDescs == {<<100>>, <<49>>, <<100, 49>>, LongDesc(49), LongDesc(50)}
KeyDurations == {5, 15}
KeyModifiers == {<<>>, <<<<98>>>>, <<<<97>>, <<98>>>>, <<<<98>>, <<97>>>>}
KeyActeData ==
    {[type_acte |-> t, description_clinique |-> d, duree_acte |-> n,
      modificateurs |-> m] :
        t \in KeyTypes, d \in KeyDescs, n \in KeyDurations, m \in KeyModifiers}

\* the candidates of a provider response that holds one candidate: a code
\* with its base score
Candidates ==
    {[code |-> "HHFA001", score_confiance |-> 90],
     [code |-> "HHFA001", score_confiance |-> -20],
     [code |-> "ZZZZ999", score_confiance |-> 150]}
\* the codes of the catalog the rule engine accepts
CatalogCodes == {"HHFA001"}
\* score_confiance_global of a provider response
GlobalScores == {80}

\* ai_service.py:348  'parsed_response.get("score_confiance_global", 0)'
DefaultGlobalScore == 0
\* the keys of the JSON object that generate_suggestions reads
ResponseFields == {"suggestions", "score_confiance_global", "explication_globale"}

\* candidate lists with two candidates, in both orders
CandidatePairs ==
    {<<[code |-> "HHFA001", score_confiance |-> 97],
       [code |-> "ZZZZ999", score_confiance |-> 5]>>,
     <<[code |-> "ZZZZ999", score_confiance |-> 5],
       [code |-> "HHFA001", score_confiance |-> 97]>>}

\* what the provider returns: a text without a JSON object, or a JSON object
\* with the keys in "fields" (a key that is absent has a placeholder here)
NoJson ==
    [json |-> FALSE, fields |-> {}, suggestions |-> <<>>,
     score_confiance_global |-> 0]
\* JSON objects that lack keys: the empty object
IncompleteResponses ==
    {[json |-> TRUE, fields |-> {}, suggestions |-> <<>>,
      score_confiance_global |-> 0]}
LlmResponses ==
    {NoJson} \cup IncompleteResponses \cup
    {[json |-> TRUE, fields |-> ResponseFields, suggestions |-> l,
      score_confiance_global |-> g] :
        l \in {<<>>} \cup {<<x>> : x \in Candidates} \cup CandidatePairs,
        g \in GlobalScores}

VARIABLES
    fingerprint, \* the last pair of acts whose cache keys were compared
    rule_log,   \* the calls of the rule engine, in order, with their verdicts
    creates,    \* one record per POST /actes request whose steps are followed
    cache,      \* cache key -> entry of the suggestion cache
    suggest,    \* one record per generate_suggestions call
    acts,       \* table actes: act id -> row
    nextId,     \* next primary key of table actes
    overrides,  \* table overrides, in insertion order
    audit,      \* table audit_entries, in insertion order
    ledger,     \* transactions recorded by the external ledger, in order
    calls       \* one record per request: its inputs, position and response

\* the variables of the suggestion service
aivars == <<cache, suggest>>
keyvars == <<fingerprint, rule_log, creates>>
vars == <<acts, nextId, overrides, audit, ledger, calls, cache, suggest,
         fingerprint, rule_log, creates>>

(* ------------------------------ rows ----------------------------------- *)
NoActe ==
    [exists |-> FALSE, deleted |-> FALSE, numero_acte |-> 0,
     description_clinique |-> "d0",
     code_ccam_suggere |-> NoCode, code_ccam_final |-> NoCode,
     score_confiance |-> NoScore, statut |-> "en_attente",
     transaction_hash |-> 0]

\* no state of an act read from the database
NoDbData ==
    [found |-> FALSE, statut |-> "none", code_ccam_final |-> NoCode,
     transaction_hash |-> 0]
\* no result of an integrity check
NoIntegrity == [verified |-> FALSE, details |-> {}]

IdleCall ==
    [op |-> "none", pc |-> "idle", result |-> "none", acte_id |-> 0,
     code |-> NoCode, force |-> FALSE, seen_score |-> NoScore,
     wrote |-> FALSE, ledger |-> "none", audit |-> "none",
     transaction_hash |-> 0, override_id |-> 0, justification |-> "",
     db_data |-> NoDbData, integrity |-> NoIntegrity]

(* ---------------------- suggestion service: rows ----------------------- *)
\* str(duree_acte): the decimal digits of a number
RECURSIVE Str(_)
Str(n) == IF n < 10 THEN <<48 + n>> ELSE Str(n \div 10) \o <<48 + (n % 10)>>

\* the order of Python strings
RECURSIVE LexLess(_, _)
LexLess(x, y) ==
    IF x = <<>> THEN y # <<>>
    ELSE IF y = <<>> THEN FALSE
    ELSE IF Head(x) # Head(y) THEN Head(x) < Head(y)
    ELSE LexLess(Tail(x), Tail(y))

\* sep.join(parts)
RECURSIVE Join(_, _)
Join(parts, sep) ==
    IF parts = <<>> THEN <<>>
    ELSE IF Len(parts) = 1 THEN parts[1]
    ELSE parts[1] \o sep \o Join(Tail(parts), sep)

\* text[:n]
Prefix(text, n) == SubSeq(text, 1, IF Len(text) < n THEN Len(text) ELSE n)

\* _create_cache_key: the four parts joined without a separator; hash() is
\* taken to map different strings to different keys
create_cache_key(acte_data) ==
    Join(<<acte_data.type_acte,
           Prefix(acte_data.description_clinique, DescPrefixLen),
           Str(acte_data.duree_acte),
           Join(SortSeq(acte_data.modificateurs, LexLess), Comma)>>, <<>>)

CacheKeys == {create_cache_key(d) : d \in ActeData}

\* a POST /actes request that was not made yet
IdleCreate == [pc |-> "idle", numero_acte |-> 0, result |-> "none"]

\* no pair of acts was compared yet
NoFingerprint == [computed |-> FALSE]

\* no AISuggestionResponse
NoResult == [ok |-> FALSE, suggestions |-> <<>>, score_confiance_global |-> 0]
\* an absent cache entry
NoEntry == [present |-> FALSE, value |-> NoResult, ttl |-> 0]

\* a generate_suggestions call that was not made yet
IdleSuggest ==
    [pc |-> "idle", cache_key |-> <<>>, force_regenerate |-> FALSE,
     extracted_info |-> "none", llm_response |-> NoJson,
     outcome |-> "none", result |-> NoResult, from_cache |-> FALSE,
     provider_calls |-> 0, rule_calls |-> 0]

Init ==
    /\ fingerprint = NoFingerprint
    /\ rule_log = <<>>
    /\ creates = [r \in CreateCalls |-> IdleCreate]
    /\ cache = [key \in CacheKeys |-> NoEntry]
    /\ suggest = [k \in SuggestCalls |-> IdleSuggest]
    /\ acts = [a \in ActIds |-> NoActe]
    /\ nextId = 1
    /\ overrides = <<>>
    /\ audit = <<>>
    /\ ledger = <<>>
    /\ calls = [c \in Calls |-> IdleCall]

(* ----------------------------- helpers --------------------------------- *)
\* requests are issued in the order of their index
CanStart(c) ==
    /\ calls[c].pc = "idle"
    /\ \A d \in Calls : d < c => calls[d].pc # "idle"

\* acte_service.get_acte_by_id: the row, unless it is absent or soft-deleted
get_acte_by_id(a) ==
    IF a \in ActIds /\ acts[a].exists /\ ~acts[a].deleted THEN a ELSE 0

\* Python truthiness of a nullable float: None and 0.0 are false
Truthy(score) == score # NoScore /\ score # 0

\* slips of the guard: one of the two terminal statuses forgotten, or the
\* guard never taken
IsFinalizedOnlyValide(statut) == statut = "valide"
IsFinalizedOnlyRejete(statut) == statut = "rejete"
IsFinalizedNever(statut) == FALSE
\* "if acte.statut in ['valide', 'rejete']"
IsFinalized(statut) == statut \in {"valide", "rejete"}

\* variant: the guard compares the score without testing that there is one
LowConfidenceUntested(force, score) == ~force /\ score < ConfidenceThreshold

\* "if not force_validation and acte.score_confiance and acte.score_confiance < 50"
LowConfidence(force, score) ==
    ~force /\ Truthy(score) /\ score < ConfidenceThreshold

\* a handler past its guards, suspended at an await: the act it was called on
\* and the locals it holds across the await
Started(c, op, a) == [calls[c] EXCEPT !.op = op, !.acte_id = a]

\* a request that has been answered and has nothing left to run: what remains
\* of it is the request and its response (the handler's locals are gone)
Finished(r, res) ==
    [IdleCall EXCEPT !.op = r.op, !.acte_id = r.acte_id, !.wrote = r.wrote,
                     !.ledger = r.ledger, !.audit = r.audit,
                     !.justification = r.justification,
                     !.result = res, !.pc = "done"]

\* the response of a request that ends in its first segment
Respond(c, op, a, res) ==
    calls' = [calls EXCEPT ![c] = Finished(Started(c, op, a), res)]

\* the guard every handler of an existing act starts with: 404 when the act
\* is not found.  Every caller modelled is permitted to touch the act (its
\* creator, or a role the handler admits), so the 403 branch is not taken.
NotFound(c, op, a) ==
    /\ get_acte_by_id(a) = 0
    /\ Respond(c, op, a, "not_found")

Found(a) == get_acte_by_id(a) # 0

(* ------------------------- services (writes) --------------------------- *)
\* acte_service.validate_acte: status, final code (and validator, timestamp)
validate_acte(row, code) ==
    [row EXCEPT !.statut = "valide", !.code_ccam_final = code]

\* acte_service.reject_acte
reject_acte(row) == [row EXCEPT !.statut = "rejete"]

\* acte_service.update_acte_blockchain_info
update_acte_blockchain_info(row, tx) == [row EXCEPT !.transaction_hash = tx]

\* acte_service.update_acte_suggestion(code_suggere, score_confiance=None)
update_acte_suggestion(row, code, score) ==
    [row EXCEPT !.code_ccam_suggere = code,
                !.score_confiance = IF score = NoScore THEN @ ELSE score]

\* acte_service.update_acte: the partial update of the clinical fields
update_acte(row, desc) == [row EXCEPT !.description_clinique = desc]

\* acte_service.delete_acte: soft delete
delete_acte(row) == [row EXCEPT !.deleted = TRUE]

\* the action name each handler passes to log_audit_action
AuditAction(op) ==
    CASE op = "validate" -> "validate_acte"
      [] op = "reject" -> "reject_acte"
      [] op = "override" -> "create_override"
      [] op = "update" -> "update_acte"
      [] op = "regenerate" -> "regenerate_suggestions"
      [] OTHER -> "none"

\* the entity type each handler passes to log_audit_action
AuditEntity(op) == IF op = "override" THEN "override" ELSE "acte"

\* acte_service.log_audit_action: one new row of audit_entries
log_audit_action(c, a, op, tx) ==
    Append(audit, [acte_id |-> a, action |-> AuditAction(op),
                   entity_type |-> AuditEntity(op), call |-> c,
                   transaction_hash |-> tx])

\* the ledger's record of one submitted transaction
LedgerKind(op) ==
    CASE op = "validate" -> "validation"
      [] op = "reject" -> "rejection"
      [] OTHER -> "override"

LedgerTx(c) ==
    [kind |-> LedgerKind(calls[c].op), acte_id |-> calls[c].acte_id,
     code |-> calls[c].code, call |-> c]

(* ------------------------------ create --------------------------------- *)
\* POST /actes: refused when an act with this number exists, otherwise a new
\* row with the column defaults (statut "en_attente", no code, no score)
create_acte(numero) ==
    /\ IF \E a \in ActIds : acts[a].exists /\ acts[a].numero_acte = numero
       THEN UNCHANGED <<acts, nextId>>
       ELSE /\ nextId <= NumActs
            /\ acts' = [acts EXCEPT ![nextId] =
                            [NoActe EXCEPT !.exists = TRUE, !.numero_acte = numero]]
            /\ nextId' = nextId + 1
    /\ UNCHANGED <<overrides, audit, ledger, calls>>
    /\ UNCHANGED <<aivars, keyvars>>

(* ----------------------------- validate -------------------------------- *)
\* variant: the handler submits the transaction before it writes the status
validate_acte_begin_submits_first(c, a, code, force) ==
    /\ CanStart(c)
    /\ \/ NotFound(c, "validate", a)
       \/ /\ Found(a)
          /\ IF IsFinalized(acts[a].statut)
             THEN Respond(c, "validate", a, "already_finalized")
             ELSE IF LowConfidence(force, acts[a].score_confiance)
             THEN Respond(c, "validate", a, "low_confidence")
             ELSE calls' = [calls EXCEPT ![c] =
                     [Started(c, "validate", a) EXCEPT !.code = code,
                         !.force = force,
                         !.seen_score = acts[a].score_confiance,
                         !.pc = "await_ledger"]]
    /\ UNCHANGED <<acts, nextId, overrides, audit, ledger>>
    /\ UNCHANGED <<aivars, keyvars>>

\* POST /validation/{acte_id}, up to the await of record_validation
validate_acte_begin(c, a, code, force) ==
    /\ CanStart(c)
    /\ \/ /\ NotFound(c, "validate", a)
          /\ UNCHANGED acts
       \/ /\ Found(a)
          /\ IF IsFinalized(acts[a].statut)
             THEN /\ Respond(c, "validate", a, "already_finalized")
                  /\ UNCHANGED acts
             ELSE IF LowConfidence(force, acts[a].score_confiance)
             THEN /\ Respond(c, "validate", a, "low_confidence")
                  /\ UNCHANGED acts
             ELSE /\ acts' = [acts EXCEPT ![a] = validate_acte(@, code)]
                  /\ calls' = [calls EXCEPT ![c] =
                        [Started(c, "validate", a) EXCEPT !.code = code,
                            !.force = force,
                            !.seen_score = acts[a].score_confiance,
                            !.wrote = TRUE, !.pc = "await_ledger"]]
    /\ UNCHANGED <<nextId, overrides, audit, ledger>>
    /\ UNCHANGED <<aivars, keyvars>>

(* ------------------------------ reject --------------------------------- *)
\* POST /validation/{acte_id}/reject, up to the await of record_rejection
reject_acte_begin(c, a) ==
    /\ CanStart(c)
    /\ \/ /\ NotFound(c, "reject", a)
          /\ UNCHANGED acts
       \/ /\ Found(a)
          /\ IF IsFinalized(acts[a].statut)
             THEN /\ Respond(c, "reject", a, "already_finalized")
                  /\ UNCHANGED acts
             ELSE /\ acts' = [acts EXCEPT ![a] = reject_acte(@)]
                  /\ calls' = [calls EXCEPT ![c] =
                        [Started(c, "reject", a) EXCEPT
                            !.wrote = TRUE, !.pc = "await_ledger"]]
    /\ UNCHANGED <<nextId, overrides, audit, ledger>>
    /\ UNCHANGED <<aivars, keyvars>>

(* ----------------------------- override -------------------------------- *)
\* OverrideCreate: the request body is checked before the handler runs;
\* the justification is mandatory and may not be empty
ValidJustification(justification) == justification # ""

\* POST /validation/{acte_id}/override, up to the await of record_override
create_override_begin(c, a, original, override, justification) ==
    /\ CanStart(c)
    /\ LET req == [Started(c, "override", a) EXCEPT
                      !.justification = justification]
       IN \/ /\ ~ValidJustification(justification)
             /\ calls' = [calls EXCEPT ![c] = Finished(req, "validation_error")]
             /\ UNCHANGED overrides
          \/ /\ ValidJustification(justification)
             /\ get_acte_by_id(a) = 0
             /\ calls' = [calls EXCEPT ![c] = Finished(req, "not_found")]
             /\ UNCHANGED overrides
          \/ /\ ValidJustification(justification)
             /\ Found(a)
             /\ IF IsFinalized(acts[a].statut)
                THEN /\ calls' = [calls EXCEPT ![c] =
                           Finished(req, "already_finalized")]
                     /\ UNCHANGED overrides
                ELSE /\ overrides' = Append(overrides,
                           [acte_id |-> a, code_ccam_original |-> original,
                            code_ccam_override |-> override,
                            transaction_hash |-> 0, call |-> c])
                     /\ calls' = [calls EXCEPT ![c] =
                           [req EXCEPT !.code = override,
                                       !.override_id = Len(overrides) + 1,
                                       !.pc = "await_ledger"]]
    /\ UNCHANGED <<acts, nextId, audit, ledger>>
    /\ UNCHANGED <<aivars, keyvars>>

(* --------------------------- the ledger call --------------------------- *)
\* record_validation / record_rejection / record_override returns a
\* transaction hash; the handler resumes, stores the hash, registers the
\* audit background task and sends the success response
ledger_call_returns(c) ==
    /\ calls[c].pc = "await_ledger"
    /\ LET tx == Len(ledger) + 1
           a == calls[c].acte_id
       IN /\ ledger' = Append(ledger, LedgerTx(c))
          /\ IF calls[c].op = "override"
             THEN /\ overrides' = [overrides EXCEPT
                        ![calls[c].override_id].transaction_hash = tx]
                  /\ acts' = [acts EXCEPT
                        ![a] = update_acte_suggestion(@, calls[c].code, NoScore)]
             ELSE /\ acts' = [acts EXCEPT ![a] = update_acte_blockchain_info(@, tx)]
                  /\ UNCHANGED overrides
          /\ calls' = [calls EXCEPT ![c] =
                [@ EXCEPT !.transaction_hash = tx, !.ledger = "ok",
                          !.audit = "scheduled", !.result = "ok",
                          !.pc = "responded"]]
    /\ UNCHANGED <<nextId, audit>>
    /\ UNCHANGED <<aivars, keyvars>>

\* the ledger call raises (node unreachable, timeout): "except Exception"
\* turns it into a 500 response
ledger_call_raises(c) ==
    /\ calls[c].pc = "await_ledger"
    /\ calls' = [calls EXCEPT ![c] =
          Finished([@ EXCEPT !.ledger = "failed"], "error500")]
    /\ UNCHANGED <<acts, nextId, overrides, audit, ledger>>
    /\ UNCHANGED <<aivars, keyvars>>

\* variant: after the timeout the handler sends the transaction again
ledger_call_resent(c) ==
    /\ calls[c].pc = "await_ledger"
    /\ ledger' = Append(ledger, LedgerTx(c))
    /\ UNCHANGED <<acts, nextId, overrides, audit, calls>>
    /\ UNCHANGED <<aivars, keyvars>>

\* the ledger call times out after the ledger accepted the transaction: the
\* handler sees the same exception, the ledger holds the transaction
ledger_call_times_out(c) ==
    /\ calls[c].pc = "await_ledger"
    /\ ledger' = Append(ledger, LedgerTx(c))
    /\ calls' = [calls EXCEPT ![c] =
          Finished([@ EXCEPT !.ledger = "failed"], "error500")]
    /\ UNCHANGED <<acts, nextId, overrides, audit>>
    /\ UNCHANGED <<aivars, keyvars>>

(* ------------------------ the background task -------------------------- *)
\* variant: the task rewrites the newest audit row instead of adding one
audit_task_rewrites(c) ==
    /\ calls[c].pc = "responded"
    /\ audit' = SubSeq(log_audit_action(c, calls[c].acte_id, calls[c].op,
                                        calls[c].transaction_hash),
                       2, Len(audit) + 1)
    /\ calls' = [calls EXCEPT ![c] = Finished([@ EXCEPT !.audit = "written"], "ok")]
    /\ UNCHANGED <<acts, nextId, overrides, ledger>>
    /\ UNCHANGED <<aivars, keyvars>>

\* log_audit_action runs after the response was sent
audit_task_runs(c) ==
    /\ calls[c].pc = "responded"
    /\ audit' = log_audit_action(c, calls[c].acte_id, calls[c].op,
                                 calls[c].transaction_hash)
    /\ calls' = [calls EXCEPT ![c] = Finished([@ EXCEPT !.audit = "written"], "ok")]
    /\ UNCHANGED <<acts, nextId, overrides, ledger>>
    /\ UNCHANGED <<aivars, keyvars>>

\* log_audit_action raises: the error is logged, the response is not revised
audit_task_raises(c) ==
    /\ calls[c].pc = "responded"
    /\ calls' = [calls EXCEPT ![c] = Finished([@ EXCEPT !.audit = "failed"], "ok")]
    /\ UNCHANGED <<acts, nextId, overrides, audit, ledger>>
    /\ UNCHANGED <<aivars, keyvars>>

(* ------------------------------ update --------------------------------- *)
\* PUT /actes/{acte_id}
update_acte_handler(c, a, desc) ==
    /\ CanStart(c)
    /\ \/ /\ NotFound(c, "update", a)
          /\ UNCHANGED <<acts, audit>>
       \/ /\ Found(a)
          /\ IF IsFinalized(acts[a].statut)
             THEN /\ Respond(c, "update", a, "already_finalized")
                  /\ UNCHANGED <<acts, audit>>
             ELSE /\ acts' = [acts EXCEPT ![a] = update_acte(@, desc)]
                  /\ audit' = log_audit_action(c, a, "update", 0)
                  /\ calls' = [calls EXCEPT ![c] =
                        Finished([Started(c, "update", a) EXCEPT
                                     !.audit = "written"], "ok")]
    /\ UNCHANGED <<nextId, overrides, ledger>>
    /\ UNCHANGED <<aivars, keyvars>>

(* ------------------------------ delete --------------------------------- *)
\* variant: the handler deletes without looking at the status
delete_acte_handler_unguarded(c, a) ==
    /\ CanStart(c)
    /\ \/ /\ NotFound(c, "delete", a)
          /\ UNCHANGED acts
       \/ /\ Found(a)
          /\ acts' = [acts EXCEPT ![a] = delete_acte(@)]
          /\ calls' = [calls EXCEPT ![c] =
                Finished(Started(c, "delete", a), "ok")]
    /\ UNCHANGED <<nextId, overrides, audit, ledger>>
    /\ UNCHANGED <<aivars, keyvars>>

\* DELETE /actes/{acte_id}
delete_acte_handler(c, a) ==
    /\ CanStart(c)
    /\ \/ /\ NotFound(c, "delete", a)
          /\ UNCHANGED acts
       \/ /\ Found(a)
          /\ IF IsFinalized(acts[a].statut)
             THEN /\ Respond(c, "delete", a, "already_finalized")
                  /\ UNCHANGED acts
             ELSE /\ acts' = [acts EXCEPT ![a] = delete_acte(@)]
                  /\ calls' = [calls EXCEPT ![c] =
                        Finished(Started(c, "delete", a), "ok")]
    /\ UNCHANGED <<nextId, overrides, audit, ledger>>
    /\ UNCHANGED <<aivars, keyvars>>

(* ---------------------------- suggestions ------------------------------ *)
\* GET /suggestions/{acte_id} and POST /suggestions/{acte_id}/regenerate,
\* up to the await of generate_suggestions
suggestions_begin(c, a, regenerate) ==
    /\ CanStart(c)
    /\ LET op == IF regenerate THEN "regenerate" ELSE "suggest"
       IN \/ NotFound(c, op, a)
          \/ /\ Found(a)
             /\ calls' = [calls EXCEPT ![c] =
                   [Started(c, op, a) EXCEPT !.pc = "await_ai"]]
    /\ UNCHANGED <<acts, nextId, overrides, audit, ledger>>
    /\ UNCHANGED <<aivars, keyvars>>

\* generate_suggestions returns a result whose first candidate is code, with
\* global confidence score; the handler stores both on the act
suggestions_return(c, code, score) ==
    /\ calls[c].pc = "await_ai"
    /\ acts' = [acts EXCEPT
          ![calls[c].acte_id] = update_acte_suggestion(@, code, score)]
    /\ calls' = [calls EXCEPT ![c] =
          IF calls[c].op = "regenerate"
          THEN [@ EXCEPT !.audit = "scheduled",
                         !.result = "ok", !.pc = "responded"]
          ELSE Finished(@, "ok")]
    /\ UNCHANGED <<nextId, overrides, audit, ledger>>
    /\ UNCHANGED <<aivars, keyvars>>

\* generate_suggestions returns an empty candidate list: nothing is stored
suggestions_return_empty(c) ==
    /\ calls[c].pc = "await_ai"
    /\ calls' = [calls EXCEPT ![c] =
          IF calls[c].op = "regenerate"
          THEN [@ EXCEPT !.audit = "scheduled", !.result = "ok", !.pc = "responded"]
          ELSE Finished(@, "ok")]
    /\ UNCHANGED <<acts, nextId, overrides, audit, ledger>>
    /\ UNCHANGED <<aivars, keyvars>>

\* generate_suggestions raises: "except Exception" turns it into a 500
suggestions_raise(c) ==
    /\ calls[c].pc = "await_ai"
    /\ calls' = [calls EXCEPT ![c] = Finished(@, "error500")]
    /\ UNCHANGED <<acts, nextId, overrides, audit, ledger>>
    /\ UNCHANGED <<aivars, keyvars>>

(* --------------------------- specification ----------------------------- *)
Next ==
    \/ \E n \in ActIds : create_acte(n)
    \/ \E c \in Calls, a \in ActIds, code \in Codes, force \in BOOLEAN :
          validate_acte_begin(c, a, code, force)
    \/ \E c \in Calls, a \in ActIds : reject_acte_begin(c, a)
    \/ \E c \in Calls, a \in ActIds, o \in OriginalCodes, n \in OverrideCodes,
          j \in Justifications :
          create_override_begin(c, a, o, n, j)
    \/ \E c \in Calls : ledger_call_returns(c)
    \/ \E c \in Calls : ledger_call_raises(c)
    \/ \E c \in Calls : ledger_call_times_out(c)
    \/ \E c \in Calls : audit_task_runs(c)
    \/ \E c \in Calls : audit_task_raises(c)
    \/ \E c \in Calls, a \in ActIds, d \in Descs :
          update_acte_handler(c, a, d)
    \/ \E c \in Calls, a \in ActIds : delete_acte_handler(c, a)
    \/ \E c \in Calls, a \in ActIds, r \in BOOLEAN :
          suggestions_begin(c, a, r)
    \/ \E c \in Calls, code \in SuggestedCodes, s \in Scores : suggestions_return(c, code, s)
    \/ \E c \in Calls : suggestions_return_empty(c)
    \/ \E c \in Calls : suggestions_raise(c)

Spec == Init /\ [][Next]_vars

(* ======================== integrity verification ======================= *)
\* audit_service.get_acte_current_state: the anchored fields of the act's row
get_acte_current_state(a) ==
    [found |-> TRUE, statut |-> acts[a].statut,
     code_ccam_final |-> acts[a].code_ccam_final,
     transaction_hash |-> acts[a].transaction_hash]

\* the positions of the ledger's validation and rejection transactions of an
\* act
StatusTxs(a) ==
    {t \in 1..Len(ledger) :
        ledger[t].acte_id = a /\ ledger[t].kind \in {"validation", "rejection"}}

\* blockchain_service.get_acte_blockchain_state: what the ledger's newest
\* validation or rejection transaction of the act says about the act
get_acte_blockchain_state(a) ==
    IF StatusTxs(a) = {}
    THEN NoDbData
    ELSE LET t == CHOOSE t \in StatusTxs(a) : \A u \in StatusTxs(a) : u <= t
         IN [found |-> TRUE,
             statut |-> IF ledger[t].kind = "validation" THEN "valide"
                        ELSE "rejete",
             code_ccam_final |-> ledger[t].code,
             transaction_hash |-> t]

\* the fields of an act that are compared with the ledger
AnchoredFields == {"statut", "code_ccam_final", "transaction_hash"}

\* audit_service.verify_integrity: the fields on which the database and the
\* ledger disagree; an act that was never anchored and has no transaction
\* has nothing to compare
verify_integrity(db_data, blockchain_data) ==
    LET details ==
          IF ~blockchain_data.found /\ db_data.transaction_hash = 0
          THEN {}
          ELSE {f \in AnchoredFields : db_data[f] # blockchain_data[f]}
    IN [verified |-> details = {}, details |-> details]

\* GET /audit/{acte_id}/integrity, up to the await of
\* get_acte_blockchain_state: the state of the act is read from the database
verify_acte_integrity_begin(c, a) ==
    /\ CanStart(c)
    /\ IF get_acte_by_id(a) = 0
       THEN Respond(c, "verify", a, "error500")
       ELSE calls' = [calls EXCEPT ![c] =
               [Started(c, "verify", a) EXCEPT
                   !.db_data = get_acte_current_state(a),
                   !.pc = "await_chain"]]
    /\ UNCHANGED <<acts, nextId, overrides, audit, ledger>>
    /\ UNCHANGED <<aivars, keyvars>>

\* the response of an integrity check
Verified(r, integrity) ==
    [Finished(r, "ok") EXCEPT !.integrity = integrity]

\* variant: the handler reports every act as verified
verify_acte_integrity_returns_unchecked(c) ==
    /\ calls[c].pc = "await_chain"
    /\ calls' = [calls EXCEPT ![c] =
          Verified(@, [verified |-> TRUE, details |-> {}])]
    /\ UNCHANGED <<acts, nextId, overrides, audit, ledger>>
    /\ UNCHANGED <<aivars, keyvars>>

\* variant: the handler writes the ledger's final code back into the act
verify_acte_integrity_returns_corrects(c) ==
    /\ calls[c].pc = "await_chain"
    /\ LET a == calls[c].acte_id
           blockchain_data == get_acte_blockchain_state(a)
       IN /\ calls' = [calls EXCEPT ![c] =
                Verified(@, verify_integrity(calls[c].db_data, blockchain_data))]
          /\ acts' = [acts EXCEPT ![a].code_ccam_final =
                IF blockchain_data.found
                THEN blockchain_data.code_ccam_final ELSE @]
    /\ UNCHANGED <<nextId, overrides, audit, ledger>>
    /\ UNCHANGED <<aivars, keyvars>>

\* get_acte_blockchain_state returns: the two states are compared and the
\* result is the response
verify_acte_integrity_returns(c) ==
    /\ calls[c].pc = "await_chain"
    /\ calls' = [calls EXCEPT ![c] =
          Verified(@, verify_integrity(calls[c].db_data,
                       get_acte_blockchain_state(calls[c].acte_id)))]
    /\ UNCHANGED <<acts, nextId, overrides, audit, ledger>>
    /\ UNCHANGED <<aivars, keyvars>>

\* get_acte_blockchain_state raises: "except Exception" answers 500
verify_acte_integrity_raises(c) ==
    /\ calls[c].pc = "await_chain"
    /\ calls' = [calls EXCEPT ![c] = Finished(@, "error500")]
    /\ UNCHANGED <<acts, nextId, overrides, audit, ledger>>
    /\ UNCHANGED <<aivars, keyvars>>

\* somebody with access to the database changes the final code of an
\* anchored act without going through the handlers
tamper_final_code(a, code) ==
    /\ acts[a].exists
    /\ acts[a].transaction_hash # 0
    /\ acts[a].code_ccam_final # code
    /\ acts' = [acts EXCEPT ![a].code_ccam_final = code]
    /\ UNCHANGED <<nextId, overrides, audit, ledger, calls>>
    /\ UNCHANGED <<aivars, keyvars>>

\* validations and rejections, their anchoring and their audit entries,
\* integrity checks, and tampering
NextAudit ==
    \/ \E n \in ActIds : create_acte(n)
    \/ \E c \in Calls, a \in ActIds, code \in Codes, force \in BOOLEAN :
          validate_acte_begin(c, a, code, force)
    \/ \E c \in Calls, a \in ActIds : reject_acte_begin(c, a)
    \/ \E c \in Calls : ledger_call_returns(c)
    \/ \E c \in Calls : ledger_call_raises(c)
    \/ \E c \in Calls : ledger_call_times_out(c)
    \/ \E c \in Calls : audit_task_runs(c)
    \/ \E c \in Calls : audit_task_raises(c)
    \/ \E c \in Calls, a \in ActIds : verify_acte_integrity_begin(c, a)
    \/ \E c \in Calls : verify_acte_integrity_returns(c)
    \/ \E c \in Calls : verify_acte_integrity_raises(c)
    \/ \E a \in ActIds, code \in Codes : tamper_final_code(a, code)

SpecAudit == Init /\ [][NextAudit]_vars

(* ===================== suggestion service (agent_ai) =================== *)
\* the variables of the backend
backendvars == <<acts, nextId, overrides, audit, ledger, calls>>

\* no call holds a provider response it has not processed yet: receiving the
\* response changes the call's own record only, so processing it at once
\* loses no behaviour of the other calls
NoSegmentOpen == \A j \in SuggestCalls : suggest[j].pc # "parse"

\* generate_suggestions calls are issued in the order of their index
CanStartSuggest(k) ==
    /\ NoSegmentOpen
    /\ suggest[k].pc = "idle"
    /\ \A j \in SuggestCalls : j < k => suggest[j].pc # "idle"

\* cache_manager.get: the stored value, None when the key is absent
cache_get(key) == IF cache[key].present THEN cache[key].value ELSE NoResult

\* cache_manager.set with a time to live, in seconds
cache_set(key, value, ttl) ==
    [cache EXCEPT ![key] = [present |-> TRUE, value |-> value, ttl |-> ttl]]

\* the store after d seconds: an entry whose time to live has run out is gone
cache_after(d) ==
    [key \in CacheKeys |->
        IF cache[key].present /\ cache[key].ttl > d
        THEN [cache[key] EXCEPT !.ttl = @ - d]
        ELSE NoEntry]

\* variant: the cache is never consulted
UseCacheNever(force_regenerate, cached_result) == FALSE

\* "if not force_regenerate: ... if cached_result:"
UseCache(force_regenerate, cached_result) ==
    ~force_regenerate /\ cached_result.ok

\* rule_engine.validate_code: a code is valid when the catalog holds it
validate_code(code, extracted_info) == [is_valid |-> code \in CatalogCodes]

Min(x, y) == IF x < y THEN x ELSE y
Max(x, y) == IF x > y THEN x ELSE y

\* the adjustment of one candidate's confidence score in _enrich_suggestions
AdjustScore(score_confiance, rule_validation) ==
    IF rule_validation.is_valid
    THEN Min(score_confiance + ScoreBonus, ScoreMax)
    ELSE Max(score_confiance - ScorePenalty, ScoreMin)

\* parsed_response.get("suggestions", [])
GetSuggestions(parsed_response) ==
    IF "suggestions" \in parsed_response.fields
    THEN parsed_response.suggestions
    ELSE <<>>

\* parsed_response.get("score_confiance_global", 0)
GetGlobalScore(parsed_response) ==
    IF "score_confiance_global" \in parsed_response.fields
    THEN parsed_response.score_confiance_global
    ELSE DefaultGlobalScore

\* _enrich_suggestions when no exception occurs: every candidate with its
\* adjusted score, in the order of the list; the other keys are copied, an
\* absent key gets its default
enrich_suggestions(parsed_response, extracted_info) ==
    [fields |-> ResponseFields,
     suggestions |->
        [i \in 1..Len(GetSuggestions(parsed_response)) |->
            [GetSuggestions(parsed_response)[i] EXCEPT !.score_confiance =
                AdjustScore(@, validate_code(GetSuggestions(parsed_response)[i].code,
                                             extracted_info))]],
     score_confiance_global |-> GetGlobalScore(parsed_response)]

\* the Field(ge=0, le=100) constraints of Suggestion and AISuggestionResponse
InRange(score) == ScoreMin <= score /\ score <= ScoreMax

\* AISuggestionResponse(...) is built without a validation error
ResponseIsValid(d) ==
    /\ ResponseFields \subseteq d.fields
    /\ \A i \in 1..Len(d.suggestions) : InRange(d.suggestions[i].score_confiance)
    /\ InRange(d.score_confiance_global)

\* AISuggestionResponse(...)
AISuggestionResponse(d) ==
    [ok |-> TRUE, suggestions |-> d.suggestions,
     score_confiance_global |-> d.score_confiance_global]

\* a call that has returned or raised: what remains is its outcome and, of
\* an answer from the cache, whether the request had force_regenerate set
Returned(r, outcome, result, from_cache) ==
    [IdleSuggest EXCEPT !.pc = "done", !.cache_key = r.cache_key,
                        !.force_regenerate = from_cache /\ r.force_regenerate,
                        !.provider_calls = r.provider_calls,
                        !.rule_calls = r.rule_calls,
                        !.outcome = outcome, !.result = result,
                        !.from_cache = from_cache]

\* variant: the cache is read whether or not force_regenerate is set
generate_suggestions_begin_reads_cache(k, acte_data, force_regenerate) ==
    /\ CanStartSuggest(k)
    /\ LET key == create_cache_key(acte_data)
           cached_result == cache_get(key)
           r == [suggest[k] EXCEPT !.cache_key = key,
                                   !.force_regenerate = force_regenerate]
       IN IF cached_result.ok
          THEN suggest' = [suggest EXCEPT ![k] =
                  Returned(r, "ok", AISuggestionResponse(cached_result), TRUE)]
          ELSE suggest' = [suggest EXCEPT ![k] =
                  [r EXCEPT !.pc = "extract", !.provider_calls = 1]]
    /\ UNCHANGED cache
    /\ UNCHANGED <<backendvars, keyvars>>

\* generate_suggestions up to the first provider call: the cache key, the
\* cache lookup and, on a hit, the return of the stored result; otherwise the
\* extraction call is sent to the provider
generate_suggestions_begin(k, acte_data, force_regenerate) ==
    /\ CanStartSuggest(k)
    /\ LET key == create_cache_key(acte_data)
           cached_result == IF force_regenerate THEN NoResult ELSE cache_get(key)
           r == [suggest[k] EXCEPT !.cache_key = key,
                                   !.force_regenerate = force_regenerate]
       IN IF UseCache(force_regenerate, cached_result)
          THEN suggest' = [suggest EXCEPT ![k] =
                  Returned(r, "ok", AISuggestionResponse(cached_result), TRUE)]
          ELSE suggest' = [suggest EXCEPT ![k] =
                  [r EXCEPT !.pc = "extract", !.provider_calls = 1]]
    /\ UNCHANGED cache
    /\ UNCHANGED <<backendvars, keyvars>>

\* _extract_clinical_info has its answer; the main prompt is sent
extract_returns(k) ==
    /\ NoSegmentOpen
    /\ suggest[k].pc = "extract"
    /\ suggest' = [suggest EXCEPT ![k] =
          [@ EXCEPT !.extracted_info = "info", !.pc = "llm",
                    !.provider_calls = @ + 1]]
    /\ UNCHANGED cache
    /\ UNCHANGED <<backendvars, keyvars>>

\* variant: a failure of the extraction ends the call
extract_fails_ends_call(k) ==
    /\ NoSegmentOpen
    /\ suggest[k].pc = "extract"
    /\ suggest' = [suggest EXCEPT ![k] =
          Returned(@, "provider_error", NoResult, FALSE)]
    /\ UNCHANGED cache
    /\ UNCHANGED <<backendvars, keyvars>>

\* _extract_clinical_info fails: the error is logged, the information is
\* empty, and the main prompt is sent
extract_fails(k) ==
    /\ NoSegmentOpen
    /\ suggest[k].pc = "extract"
    /\ suggest' = [suggest EXCEPT ![k] =
          [@ EXCEPT !.extracted_info = "empty", !.pc = "llm",
                    !.provider_calls = @ + 1]]
    /\ UNCHANGED cache
    /\ UNCHANGED <<backendvars, keyvars>>

\* variant: the error of the provider is stored in the cache
call_llm_raises_cached(k) ==
    /\ NoSegmentOpen
    /\ suggest[k].pc = "llm"
    /\ cache' = cache_set(suggest[k].cache_key, NoResult, CacheTTL)
    /\ suggest' = [suggest EXCEPT ![k] =
          Returned(@, "provider_error", NoResult, FALSE)]
    /\ UNCHANGED <<backendvars, keyvars>>

\* _call_llm raises (provider error, timeout): generate_suggestions logs the
\* error and raises it again
call_llm_raises(k) ==
    /\ NoSegmentOpen
    /\ suggest[k].pc = "llm"
    /\ suggest' = [suggest EXCEPT ![k] =
          Returned(@, "provider_error", NoResult, FALSE)]
    /\ UNCHANGED cache
    /\ UNCHANGED <<backendvars, keyvars>>

\* the caller abandons the request while generate_suggestions awaits the
\* provider: the task that runs the coroutine is cancelled, CancelledError is
\* raised at the await, no "except Exception" catches it, and the coroutine
\* ends without a result
call_cancelled(k) ==
    /\ NoSegmentOpen
    /\ suggest[k].pc \in {"extract", "llm"}
    /\ suggest' = [suggest EXCEPT ![k] =
          Returned(@, "cancelled", NoResult, FALSE)]
    /\ UNCHANGED cache
    /\ UNCHANGED <<backendvars, keyvars>>

\* _call_llm returns the text of the provider; the segment that starts here
\* ends with process_response
call_llm_returns(k, llm_response) ==
    /\ NoSegmentOpen
    /\ suggest[k].pc = "llm"
    /\ suggest' = [suggest EXCEPT ![k] =
          [@ EXCEPT !.llm_response = llm_response, !.pc = "parse"]]
    /\ UNCHANGED cache
    /\ UNCHANGED <<backendvars, keyvars>>

\* variant: the result is stored with half the time to live
build_response_short_ttl(k, r, d) ==
    IF ~(ResponseFields \subseteq d.fields)
    THEN /\ suggest' = [suggest EXCEPT ![k] = Returned(r, "key_error", NoResult, FALSE)]
         /\ UNCHANGED cache
    ELSE IF ~ResponseIsValid(d)
    THEN /\ suggest' = [suggest EXCEPT ![k] = Returned(r, "validation_error", NoResult, FALSE)]
         /\ UNCHANGED cache
    ELSE /\ cache' = cache_set(r.cache_key, AISuggestionResponse(d), CacheTTL \div 2)
         /\ suggest' = [suggest EXCEPT ![k] = Returned(r, "ok", AISuggestionResponse(d), FALSE)]

\* generate_suggestions from the construction of the response on: d is what
\* _enrich_suggestions has returned.  A key that d lacks is a KeyError, a
\* score out of range a validation error; otherwise the response is stored
\* in the cache and returned
build_response(k, r, d) ==
    IF ~(ResponseFields \subseteq d.fields)
    THEN /\ suggest' = [suggest EXCEPT ![k] =
               Returned(r, "key_error", NoResult, FALSE)]
         /\ UNCHANGED cache
    ELSE IF ~ResponseIsValid(d)
    THEN /\ suggest' = [suggest EXCEPT ![k] =
               Returned(r, "validation_error", NoResult, FALSE)]
         /\ UNCHANGED cache
    ELSE /\ cache' = cache_set(r.cache_key, AISuggestionResponse(d), CacheTTL)
         /\ suggest' = [suggest EXCEPT ![k] =
               Returned(r, "ok", AISuggestionResponse(d), FALSE)]

\* the rest of generate_suggestions: _parse_llm_response, _enrich_suggestions,
\* the construction of the response, the cache write and the return
process_response(k) ==
    /\ suggest[k].pc = "parse"
    /\ LET r == suggest[k]
           parsed_response == r.llm_response
           enriched == enrich_suggestions(parsed_response, r.extracted_info)
           counted == [r EXCEPT !.rule_calls = Len(GetSuggestions(parsed_response))]
       IN IF ~parsed_response.json
          THEN /\ suggest' = [suggest EXCEPT ![k] =
                     Returned(r, "parse_error", NoResult, FALSE)]
               /\ UNCHANGED cache
          ELSE build_response(k, counted, enriched)
    /\ UNCHANGED <<backendvars, keyvars>>

\* the same segment when the i-th call of rule_engine.validate_code raises:
\* _enrich_suggestions logs the error and returns parsed_response as it is
process_response_rule_raises(k, i) ==
    /\ suggest[k].pc = "parse"
    /\ suggest[k].llm_response.json
    /\ i \in 1..Len(GetSuggestions(suggest[k].llm_response))
    /\ build_response(k, [suggest[k] EXCEPT !.rule_calls = i],
                      suggest[k].llm_response)
    /\ UNCHANGED <<backendvars, keyvars>>

\* half the time to live of a new entry passes
time_passes ==
    /\ NoSegmentOpen
    /\ \E key \in CacheKeys : cache[key].present
    /\ cache' = cache_after(CacheTTL \div 2)
    /\ UNCHANGED suggest
    /\ UNCHANGED <<backendvars, keyvars>>

NextAI ==
    \/ \E k \in SuggestCalls, d \in ActeData, f \in BOOLEAN :
          generate_suggestions_begin(k, d, f)
    \/ \E k \in SuggestCalls : extract_returns(k)
    \/ \E k \in SuggestCalls : extract_fails(k)
    \/ \E k \in SuggestCalls : call_llm_raises(k)
    \/ \E k \in SuggestCalls : call_cancelled(k)
    \/ \E k \in SuggestCalls, r \in LlmResponses : call_llm_returns(k, r)
    \/ \E k \in SuggestCalls : process_response(k)
    \/ \E k \in SuggestCalls, i \in {1, 2} : process_response_rule_raises(k, i)
    \/ time_passes

SpecAI == Init /\ [][NextAI]_vars

(* ============================ cache keys =============================== *)
\* _create_cache_key is applied to two acts, once in a behaviour
create_cache_key_pair(a, b) ==
    /\ ~fingerprint.computed
    /\ fingerprint' = [computed |-> TRUE, a |-> a, b |-> b,
                       key_a |-> create_cache_key(a),
                       key_b |-> create_cache_key(b)]
    /\ UNCHANGED <<aivars, backendvars, rule_log, creates>>

NextKey == \E a \in KeyActeData, b \in KeyActeData : create_cache_key_pair(a, b)

SpecKey == Init /\ [][NextKey]_vars

(* ===================== creation, step by step ========================== *)
\* the rows of table actes the requests followed here have inserted
CreatedRows == {r \in CreateCalls : creates[r].result = "created"}

\* acte_service.get_acte_by_numero
get_acte_by_numero(numero) ==
    \E r \in CreatedRows : creates[r].numero_acte = numero

\* variant: the column numero_acte is not declared unique
UniqueViolationNever(numero) == FALSE

\* Column(String(50), unique=True): the insert of a second row with the
\* number is refused by the database
UniqueViolation(numero) ==
    \E r \in CreatedRows : creates[r].numero_acte = numero

\* POST /actes up to the insert: the look-up of the number, and 400 when an
\* act has it
create_acte_check(r, numero) ==
    /\ creates[r].pc = "idle"
    /\ \A q \in CreateCalls : q < r => creates[q].pc # "idle"
    /\ creates' = [creates EXCEPT ![r] =
          IF get_acte_by_numero(numero)
          THEN [pc |-> "done", numero_acte |-> numero, result |-> "exists"]
          ELSE [pc |-> "checked", numero_acte |-> numero, result |-> "none"]]
    /\ UNCHANGED <<aivars, backendvars, fingerprint, rule_log>>

\* acte_service.create_acte: the insert and its commit; an insert the
\* database refuses raises, and the handler, which has no try, answers 500
create_acte_insert(r) ==
    /\ creates[r].pc = "checked"
    /\ creates' = [creates EXCEPT ![r] =
          [@ EXCEPT !.pc = "done",
                    !.result = IF UniqueViolation(creates[r].numero_acte)
                               THEN "error500" ELSE "created"]]
    /\ UNCHANGED <<aivars, backendvars, fingerprint, rule_log>>

NextCreate ==
    \/ \E r \in CreateCalls, numero \in Numeros : create_acte_check(r, numero)
    \/ \E r \in CreateCalls : create_acte_insert(r)

SpecCreate == Init /\ [][NextCreate]_vars

(* ============================ rule checks ============================== *)
\* the codes and the extracted information _enrich_suggestions passes to
\* the rule engine
RuleCodes == {"HHFA001", "ZZZZ999"}
RuleContexts == {"info", "empty"}

\* one call of the rule engine as _enrich_suggestions sees it
RuleCall(code, extracted_info, rule_validation) ==
    [code |-> code, extracted_info |-> extracted_info,
     rule_validation |-> rule_validation]

\* variant: the verdict kept is the one of the code asked before
validate_code_called_stale(code, extracted_info) ==
    /\ Len(rule_log) < MaxRuleCalls
    /\ rule_log' = Append(rule_log,
          RuleCall(code, extracted_info,
                   IF rule_log = <<>>
                   THEN validate_code(code, extracted_info)
                   ELSE validate_code(rule_log[Len(rule_log)].code,
                                      extracted_info)))
    /\ UNCHANGED <<aivars, backendvars, fingerprint, creates>>

\* rule_validation = await self.rule_engine.validate_code(code, extracted_info)
validate_code_called(code, extracted_info) ==
    /\ Len(rule_log) < MaxRuleCalls
    /\ rule_log' = Append(rule_log,
          RuleCall(code, extracted_info, validate_code(code, extracted_info)))
    /\ UNCHANGED <<aivars, backendvars, fingerprint, creates>>

NextRule ==
    \E code \in RuleCodes, extracted_info \in RuleContexts :
        validate_code_called(code, extracted_info)

SpecRule == Init /\ [][NextRule]_vars

(* ------------------------------ claims --------------------------------- *)
Terminal == {"valide", "rejete"}
StatusOps == {"validate", "reject"}
AuditedOps == {"validate", "reject", "update", "override"}
AnchoredOps == {"validate", "reject", "override"}

\* the request c starts in this step, as operation op on the act a
Starts(c, op, a) ==
    /\ calls[c].pc = "idle"
    /\ calls'[c].pc # "idle"
    /\ calls'[c].op = op
    /\ calls'[c].acte_id = a

\* the rows of audit_entries (in table t) the request c produced
EntriesOf(t, c) == {i \in 1..Len(t) : t[i].call = c}

\* C1: once the status of an act is validated or rejected, no step of any
\* request changes it again.
C1_TerminalStatusIsFinal ==
    [][\A a \in ActIds :
          acts[a].statut \in Terminal => acts'[a].statut = acts[a].statut]_vars

\* a rejected act on which a later validate was attempted
C1_Witness ==
    \E c \in Calls :
        /\ calls[c].op = "validate"
        /\ calls[c].result = "already_finalized"
        /\ acts[calls[c].acte_id].statut = "rejete"

C3_LowConfidenceRefused ==
    [][\A c \in Calls, a \in ActIds :
          (/\ Starts(c, "validate", a)
           /\ acts[a].exists /\ ~acts[a].deleted
           /\ acts[a].statut = "en_attente"
           /\ acts[a].score_confiance \in 0..(ConfidenceThreshold - 1)
           /\ ~calls'[c].force)
          => (/\ calls'[c].result = "low_confidence"
              /\ acts'[a].statut = "en_attente"
              /\ acts'[a].code_ccam_final = NoCode)]_vars

\* C4: validate on a pending act with force=true or a confidence score of at
\* least 50 is not refused and ends in success, and when it has succeeded the
\* act is validated with the final code of the call.
C4_ValidateSucceeds ==
    [][/\ \A c \in Calls, a \in ActIds :
             (/\ Starts(c, "validate", a)
              /\ acts[a].exists /\ ~acts[a].deleted
              /\ acts[a].statut = "en_attente"
              /\ acts[a].score_confiance >= ConfidenceThreshold)
             => calls'[c].pc = "await_ledger"
       /\ \A c \in Calls :
             (/\ calls[c].op = "validate"
              /\ calls[c].pc = "await_ledger"
              /\ calls[c].force \/ calls[c].seen_score >= ConfidenceThreshold
              /\ calls'[c].pc # "await_ledger")
             => (/\ calls'[c].result = "ok"
                 /\ acts'[calls[c].acte_id].statut = "valide"
                 /\ acts'[calls[c].acte_id].code_ccam_final = calls[c].code)]_vars

\* C5: of the validate and reject calls on one act at most one writes the
\* status; every such call that starts after it, while it is still running or
\* later, is refused as already finalized.
C5_OneStatusChange ==
    \A a \in ActIds :
        /\ Cardinality({c \in Calls : /\ calls[c].acte_id = a
                                      /\ calls[c].op \in StatusOps
                                      /\ calls[c].wrote}) <= 1
        /\ \A c \in Calls, d \in Calls :
              (/\ c < d
               /\ calls[c].acte_id = a /\ calls[d].acte_id = a
               /\ calls[c].op \in StatusOps /\ calls[d].op \in StatusOps
               /\ calls[c].wrote
               /\ calls[d].pc # "idle")
              => (calls[d].result = "already_finalized" /\ ~calls[d].wrote)

\* a status-changing call refused while the call that changed the status is
\* still waiting for the ledger
C5_Witness ==
    \E c \in Calls, d \in Calls :
        /\ calls[c].op \in StatusOps /\ calls[d].op \in StatusOps
        /\ calls[c].acte_id = calls[d].acte_id
        /\ calls[c].wrote /\ calls[c].pc = "await_ledger"
        /\ calls[d].result = "already_finalized"

\* C6: a successful validate, reject, update or override call has added
\* exactly one audit entry, with the act and the action name of the call.
C6_ExactlyOneAuditEntry ==
    \A c \in Calls :
        (/\ calls[c].op \in AuditedOps
         /\ calls[c].result = "ok"
         /\ calls[c].pc = "done")
        => Cardinality({i \in EntriesOf(audit, c) :
                            /\ audit[i].acte_id = calls[c].acte_id
                            /\ audit[i].action = AuditAction(calls[c].op)}) = 1

\* C7: when validate, reject or override answers with success, the audit entry
\* of the call is in the audit log.
C7_AuditBeforeSuccess ==
    [][\A c \in Calls :
          (/\ calls[c].result # "ok"
           /\ calls'[c].result = "ok"
           /\ calls'[c].op \in AnchoredOps)
          => EntriesOf(audit', c) # {}]_vars

\* C8: a call whose audit write failed is not reported as successful.
C8_AuditFailureFailsCall ==
    \A c \in Calls :
        (calls[c].op \in AuditedOps /\ calls[c].audit = "failed")
        => calls[c].result # "ok"

\* C9: a call whose ledger call failed is still reported as successful.
C9_LedgerFailureNotFatal ==
    \A c \in Calls :
        (calls[c].op \in AnchoredOps /\ calls[c].ledger = "failed")
        => calls[c].result = "ok"

\* C10: a call has answered with success by the time its local writes are
\* committed: no call is held back with its ledger call outstanding.
C10_ResponseNotBlockedByLedger ==
    \A c \in Calls :
        (calls[c].op \in AnchoredOps /\ calls[c].pc = "await_ledger")
        => calls[c].result = "ok"

\* C11: an act finalized by a call whose ledger call failed ends up anchored
\* (or marked abandoned, for which the program has no field): once every
\* request has finished, and so no step is left to run, the act carries a
\* ledger reference.
C11_FailedAnchorResolved ==
    (\A d \in Calls : calls[d].pc = "done")
    => \A c \in Calls :
          (/\ calls[c].op \in StatusOps
           /\ calls[c].wrote
           /\ calls[c].ledger = "failed")
          => acts[calls[c].acte_id].transaction_hash # 0

\* the ledger transactions that record the status decision of act a
StatusTxOf(a) ==
    {i \in 1..Len(ledger) :
        ledger[i].acte_id = a /\ ledger[i].kind \in {"validation", "rejection"}}

\* C12: the ledger holds at most one transaction per local entry: at most one
\* per request, at most one validation or rejection per act, and at most one
\* per override record.
C12_OneTransactionPerEntry ==
    /\ \A c \in Calls : Cardinality(EntriesOf(ledger, c)) <= 1
    /\ \A a \in ActIds : Cardinality(StatusTxOf(a)) <= 1
    /\ \A k \in 1..Len(overrides) :
          Cardinality({i \in 1..Len(ledger) :
                          /\ ledger[i].kind = "override"
                          /\ ledger[i].call = overrides[k].call}) <= 1

\* the ledger accepted the transaction of a call that then failed, and a
\* later status-changing call on the same act was made
C12_Witness ==
    \E c \in Calls, d \in Calls :
        /\ c # d
        /\ calls[c].op \in StatusOps
        /\ calls[c].ledger = "failed"
        /\ EntriesOf(ledger, c) # {}
        /\ calls[d].op \in StatusOps
        /\ calls[d].acte_id = calls[c].acte_id
        /\ calls[d].pc = "done"

\* C13: the audit log is append-only: a step removes no audit entry and
\* changes none, except that it may set an entry's empty ledger reference.
C13_AuditAppendOnly ==
    [][/\ Len(audit') >= Len(audit)
       /\ \A i \in 1..Len(audit) :
             \/ audit'[i] = audit[i]
             \/ /\ audit[i].transaction_hash = 0
                /\ audit'[i] = [audit[i] EXCEPT
                       !.transaction_hash = audit'[i].transaction_hash]]_vars

\* an audit log to which a second request has added its entry
C13_Witness ==
    /\ Len(audit) >= 2
    /\ audit[1].call # audit[2].call

C15_OverrideSucceeds ==
    [][\A c \in Calls :
          (/\ calls[c].op = "override"
           /\ calls[c].pc = "await_ledger"
           /\ calls'[c].result = "ok")
          => LET a == calls[c].acte_id
             IN /\ Cardinality({k \in EntriesOf(overrides', c) :
                                   overrides'[k].acte_id = a}) = 1
                /\ acts'[a].code_ccam_suggere = calls[c].code
                /\ acts'[a].statut = "en_attente"
                /\ acts'[a].code_ccam_final = NoCode]_vars

\* C16: no step changes the clinical description of an act whose status is
\* validated or rejected, and an update request on such an act is refused as
\* already finalized and leaves the act as it was.
C16_FinalizedActImmutable ==
    [][/\ \A a \in ActIds :
             acts[a].statut \in Terminal
             => acts'[a].description_clinique = acts[a].description_clinique
       /\ \A c \in Calls, a \in ActIds :
             (/\ Starts(c, "update", a)
              /\ acts[a].exists /\ ~acts[a].deleted
              /\ acts[a].statut \in Terminal)
             => (/\ calls'[c].result = "already_finalized"
                 /\ acts' = acts)]_vars

\* an update refused while the request that finalized the act is still
\* waiting for the ledger
C16_Witness ==
    \E c \in Calls, d \in Calls :
        /\ calls[c].op \in StatusOps
        /\ calls[c].wrote /\ calls[c].pc = "await_ledger"
        /\ calls[d].op = "update"
        /\ calls[d].acte_id = calls[c].acte_id
        /\ calls[d].result = "already_finalized"

\* the generate_suggestions call k starts in this step
Begins(k) == suggest[k].pc = "idle" /\ suggest'[k].pc # "idle"

\* C17: a call without force_regenerate whose key has an unexpired cache
\* entry returns the stored result as it is stored, calls neither the
\* provider nor the rule engine, and leaves the cache as it was.
C17_CacheHitReturnsStored ==
    [][\A k \in SuggestCalls :
          (/\ Begins(k)
           /\ ~suggest'[k].force_regenerate
           /\ cache[suggest'[k].cache_key].present)
          => (/\ suggest'[k].pc = "done"
              /\ suggest'[k].outcome = "ok"
              /\ suggest'[k].result = cache[suggest'[k].cache_key].value
              /\ suggest'[k].provider_calls = 0
              /\ suggest'[k].rule_calls = 0
              /\ cache' = cache)]_vars

\* a base score of 90 on a valid code was stored as 95, and a later call,
\* made when half the lifetime of the entry had passed, returned 95 from the
\* cache
C17_Witness ==
    \E j \in SuggestCalls, k \in SuggestCalls :
        /\ j < k
        /\ suggest[j].outcome = "ok" /\ ~suggest[j].from_cache
        /\ suggest[j].rule_calls = 1
        /\ suggest[k].outcome = "ok" /\ suggest[k].from_cache
        /\ suggest[k].cache_key = suggest[j].cache_key
        /\ suggest[k].result = suggest[j].result
        /\ suggest[k].result.suggestions = <<[code |-> "HHFA001",
                                              score_confiance |-> 95]>>
        /\ cache[suggest[k].cache_key].present
        /\ cache[suggest[k].cache_key].ttl < CacheTTL

\* the calls without force_regenerate that missed the cache for this key and
\* have their provider calls under way
AtProvider(key) ==
    {k \in SuggestCalls : /\ suggest[k].cache_key = key
                          /\ ~suggest[k].force_regenerate
                          /\ suggest[k].pc \in {"extract", "llm", "parse"}}

\* C18: of the callers that ask for the same key while the cache is empty,
\* at most one goes to the provider; the others wait for its result.
C18_OneProviderCallPerKey ==
    \A key \in CacheKeys : Cardinality(AtProvider(key)) <= 1

\* the outcomes of a generate_suggestions call that raised
Failures == {"provider_error", "parse_error", "validation_error", "key_error"}

\* C19: the step in which a call fails (provider error or timeout, parse
\* error, invalid response) leaves the cache as it was, and no cache entry
\* ever holds anything but the result of a successful call.
C19_FailureNotCached ==
    [][/\ \A k \in SuggestCalls :
             (suggest[k].pc # "done" /\ suggest'[k].outcome \in Failures)
             => cache' = cache
       /\ \A key \in CacheKeys :
             cache'[key].present => cache'[key].value.ok]_vars

\* a call failed at the provider or at the parser, and the entry that an
\* earlier call had stored for its key is still that call's result
C19_Witness ==
    \E k \in SuggestCalls :
        /\ suggest[k].outcome \in {"provider_error", "parse_error"}
        /\ cache[suggest[k].cache_key].present
        /\ cache[suggest[k].cache_key].value.ok
        /\ \E j \in SuggestCalls :
              /\ j < k
              /\ suggest[j].cache_key = suggest[k].cache_key
              /\ suggest[j].outcome = "ok" /\ ~suggest[j].from_cache
              /\ suggest[j].result = cache[suggest[k].cache_key].value

\* C20: whatever base score the provider has returned for a candidate, and
\* whatever the verdict of the rule engine, the adjusted score that
\* _enrich_suggestions computes for the candidate lies in 0..100.
C20_AdjustedScoreInRange ==
    \A k \in SuggestCalls :
        (suggest[k].pc = "parse" /\ suggest[k].llm_response.json)
        => LET enriched == enrich_suggestions(suggest[k].llm_response,
                                              suggest[k].extracted_info)
           IN \A i \in 1..Len(enriched.suggestions) :
                 enriched.suggestions[i].score_confiance \in ScoreMin..ScoreMax

\* C21: when a call computes a successful result from a provider response,
\* the result holds the response's candidates in their order, each with its
\* own code and with its own base score s adjusted by its own verdict alone:
\* min(s + 5, 100) when the rule engine finds the code valid, max(s - 10, 0)
\* when it finds it invalid.
C21_ScorePerCandidate ==
    [][\A k \in SuggestCalls :
          (suggest[k].pc = "parse" /\ suggest'[k].outcome = "ok")
          => LET base == GetSuggestions(suggest[k].llm_response)
                 res == suggest'[k].result.suggestions
             IN /\ Len(res) = Len(base)
                /\ \A i \in 1..Len(base) :
                      /\ res[i].code = base[i].code
                      /\ res[i].score_confiance =
                            IF validate_code(base[i].code,
                                             suggest[k].extracted_info).is_valid
                            THEN Min(base[i].score_confiance + 5, 100)
                            ELSE Max(base[i].score_confiance - 10, 0)]_vars

\* the set of the modifiers of an act
ModifierSet(a) == {a.modificateurs[i] : i \in 1..Len(a.modificateurs)}

\* the first 100 characters of the description of an act
First100(a) ==
    [i \in 1..Min(Len(a.description_clinique), 100) |-> a.description_clinique[i]]

\* C22: two acts have the same cache key exactly when they have the same
\* type, the same first 100 characters of description, the same duration and
\* the same set of modifiers, in whatever order the modifiers are listed.
C22_FingerprintIffComponents ==
    fingerprint.computed
    => ((fingerprint.key_a = fingerprint.key_b)
        <=> (/\ fingerprint.a.type_acte = fingerprint.b.type_acte
             /\ First100(fingerprint.a) = First100(fingerprint.b)
             /\ fingerprint.a.duree_acte = fingerprint.b.duree_acte
             /\ ModifierSet(fingerprint.a) = ModifierSet(fingerprint.b)))

\* C23: a call whose provider response holds no JSON object, or a JSON object
\* without one of the required fields, fails: it returns no result and it
\* leaves the cache as it was.
C23_IncompleteResponseFails ==
    [][\A k \in SuggestCalls :
          (/\ suggest[k].pc = "parse"
           /\ suggest'[k].pc = "done"
           /\ \/ ~suggest[k].llm_response.json
              \/ ~(ResponseFields \subseteq suggest[k].llm_response.fields))
          => /\ suggest'[k].outcome \in Failures
             /\ ~suggest'[k].result.ok
             /\ cache' = cache]_vars

\* the status an act has after a transaction of the given kind
StatusOfKind(kind) == IF kind = "validation" THEN "valide" ELSE "rejete"

C25_ReconcileOnlyReports ==
    [][(\E c \in Calls : calls'[c] # calls[c] /\ calls'[c].op = "verify")
       => /\ acts' = acts
          /\ overrides' = overrides
          /\ audit' = audit
          /\ ledger' = ledger]_vars

\* an integrity check has reported a divergence, and the act still has the
\* final code that differs from the anchored one
C25_Witness ==
    \E c \in Calls :
        /\ calls[c].op = "verify" /\ calls[c].pc = "done"
        /\ calls[c].integrity.details # {}
        /\ \E d \in Calls :
              /\ calls[d].op = "validate" /\ calls[d].transaction_hash # 0
              /\ calls[d].acte_id = calls[c].acte_id
              /\ acts[calls[c].acte_id].code_ccam_final # calls[d].code

C27_CancelKeepsComputing ==
    [][\A k \in SuggestCalls :
          (/\ suggest[k].pc \in {"extract", "llm"}
           /\ suggest'[k].outcome = "cancelled")
          => suggest'[k].pc = suggest[k].pc]_vars

\* C28: a call in which the extraction call has failed, or in which the rule
\* engine fails before it has checked every candidate, does not end as a
\* success.
C28_SubStepFailureSurfaces ==
    [][\A k \in SuggestCalls :
          (/\ suggest[k].pc = "parse"
           /\ suggest'[k].pc = "done"
           /\ \/ suggest[k].extracted_info = "empty"
              \/ suggest'[k].rule_calls < Len(GetSuggestions(suggest[k].llm_response)))
          => suggest'[k].outcome # "ok"]_vars

\* C29: a result is stored with a time to live of 3600 seconds; no entry
\* outlives that time; and a call without force_regenerate that finds no
\* entry for its key, the old one having expired, returns nothing from the
\* cache and sends a new request to the provider, whose result becomes the
\* entry.
C29_EntryLivesOneHour ==
    [][/\ \A key \in CacheKeys :
             cache'[key].present => cache'[key].ttl \in 1..3600
       /\ \A k \in SuggestCalls :
             /\ (/\ Begins(k)
                 /\ ~suggest'[k].force_regenerate
                 /\ ~cache[suggest'[k].cache_key].present)
                => (/\ suggest'[k].pc = "extract"
                    /\ suggest'[k].provider_calls = 1
                    /\ ~suggest'[k].from_cache
                    /\ ~suggest'[k].result.ok)
             /\ (/\ suggest[k].pc = "parse"
                 /\ suggest'[k].outcome = "ok")
                => cache'[suggest[k].cache_key] =
                      [present |-> TRUE, value |-> suggest'[k].result,
                       ttl |-> 3600]]_vars

\* a call stored a result; the entry expired; a later call without
\* force_regenerate for the same key went to the provider and its result,
\* another one, is the entry now
C29_Witness ==
    \E j \in SuggestCalls, k \in SuggestCalls :
        /\ j < k
        /\ suggest[j].outcome = "ok" /\ ~suggest[j].from_cache
        /\ suggest[k].outcome = "ok" /\ ~suggest[k].from_cache
        /\ suggest[k].cache_key = suggest[j].cache_key
        /\ suggest[k].provider_calls = 2
        /\ suggest[k].result # suggest[j].result
        /\ cache[suggest[k].cache_key] =
              [present |-> TRUE, value |-> suggest[k].result, ttl |-> 3600]

\* C30: a call with force_regenerate goes to the provider without a result
\* from the cache, whether or not its key has an entry; when it succeeds its
\* result is the entry of its key, and when it fails the cache is as it was.
C30_ForceBypassesCache ==
    [][\A k \in SuggestCalls :
          /\ (Begins(k) /\ suggest'[k].force_regenerate)
             => (/\ suggest'[k].pc = "extract"
                 /\ suggest'[k].provider_calls = 1
                 /\ ~suggest'[k].from_cache
                 /\ cache' = cache)
          /\ (/\ suggest[k].force_regenerate
              /\ suggest[k].pc # "done"
              /\ suggest'[k].pc = "done")
             => IF suggest'[k].outcome = "ok"
                THEN /\ ~suggest'[k].from_cache
                     /\ suggest'[k].provider_calls = 2
                     /\ cache'[suggest[k].cache_key].present
                     /\ cache'[suggest[k].cache_key].value = suggest'[k].result
                ELSE cache' = cache]_vars

\* a call with force_regenerate has sent its main prompt to the provider
\* while the entry of its key holds, unexpired, the result an earlier call
\* stored
C30_Witness ==
    \E j \in SuggestCalls, k \in SuggestCalls :
        /\ j < k
        /\ suggest[j].outcome = "ok" /\ ~suggest[j].from_cache
        /\ suggest[k].force_regenerate
        /\ suggest[k].pc = "llm"
        /\ suggest[k].provider_calls = 2
        /\ suggest[k].cache_key = suggest[j].cache_key
        /\ cache[suggest[k].cache_key].present
        /\ cache[suggest[k].cache_key].value = suggest[j].result

\* C31: no step changes the suggested code or the confidence score of an act
\* whose status is validated or rejected.
C31_FinalizedSuggestionFrozen ==
    [][\A a \in ActIds :
          acts[a].statut \in Terminal
          => /\ acts'[a].code_ccam_suggere = acts[a].code_ccam_suggere
             /\ acts'[a].score_confiance = acts[a].score_confiance]_vars

\* C32: when a validation or a rejection that was waiting for the ledger is
\* answered with an error, the act is pending and has no final code.
C32_FailedStatusCallLeavesPending ==
    [][\A c \in Calls :
          (/\ calls[c].op \in StatusOps
           /\ calls[c].pc = "await_ledger"
           /\ calls'[c].pc = "done"
           /\ calls'[c].result # "ok")
          => /\ acts'[calls[c].acte_id].statut = "en_attente"
             /\ acts'[calls[c].acte_id].code_ccam_final = NoCode]_vars

\* C33: no row of table overrides belongs to a request that was answered
\* with an error.
C33_FailedOverrideLeavesNoRecord ==
    \A i \in 1..Len(overrides) :
        ~(/\ calls[overrides[i].call].pc = "done"
          /\ calls[overrides[i].call].result # "ok")

C35_NoScorePassesGuard ==
    [][\A c \in Calls, a \in ActIds :
          (/\ Starts(c, "validate", a)
           /\ acts[a].exists /\ ~acts[a].deleted
           /\ acts[a].statut = "en_attente"
           /\ acts[a].score_confiance = NoScore)
          => (/\ calls'[c].result # "low_confidence"
              /\ calls'[c].pc = "await_ledger"
              /\ acts'[a].statut = "valide")]_vars

\* a validation without force of an act without score has passed the guard
\* and awaits the ledger
C35_Witness ==
    \E c \in Calls :
        /\ calls[c].op = "validate"
        /\ calls[c].pc = "await_ledger"
        /\ ~calls[c].force
        /\ calls[c].seen_score = NoScore
        /\ acts[calls[c].acte_id].statut = "valide"

\* C36: no two rows of table actes have the same act number, and of the
\* requests that have asked for one number and have been answered at most
\* one has created an act; the others were refused.
C36_ActNumberUnique ==
    \A q \in CreateCalls, r \in CreateCalls :
        (/\ q # r
         /\ creates[q].pc = "done" /\ creates[r].pc = "done"
         /\ creates[q].numero_acte = creates[r].numero_acte
         /\ creates[q].result = "created")
        => creates[r].result \in {"exists", "error500"}

\* two requests for one number had both found the number free; one has
\* created the act and the other was refused at the insert
C36_Witness ==
    \E q \in CreateCalls, r \in CreateCalls :
        /\ q # r
        /\ creates[q].numero_acte = creates[r].numero_acte
        /\ creates[q].result = "created"
        /\ creates[r].result = "error500"

\* C37: no step deletes an act whose status is validated or rejected and no
\* step leaves a deleted act with such a status; a delete request on such an
\* act is refused and changes neither the acts nor the audit entries.
C37_FinalizedNeverDeleted ==
    [][\A a \in ActIds :
          /\ (acts[a].statut \in Terminal /\ ~acts[a].deleted)
             => ~acts'[a].deleted
          /\ (acts'[a].exists /\ acts'[a].deleted)
             => acts'[a].statut = "en_attente"
          /\ \A c \in Calls :
                (/\ Starts(c, "delete", a)
                 /\ acts[a].exists /\ ~acts[a].deleted
                 /\ acts[a].statut \in Terminal)
                => /\ calls'[c].result = "already_finalized"
                   /\ acts' = acts
                   /\ audit' = audit]_vars

\* a delete request on a validated or rejected act was refused and the act
\* is still there
C37_Witness ==
    \E c \in Calls :
        /\ calls[c].op = "delete"
        /\ calls[c].result = "already_finalized"
        /\ acts[calls[c].acte_id].exists
        /\ ~acts[calls[c].acte_id].deleted
        /\ acts[calls[c].acte_id].statut \in Terminal

\* C38: whenever a call stores a result in the cache, every candidate of the
\* stored entry carries the score of the provider's candidate adjusted once
\* by the verdict of the rule engine on its code: +5 up to 100 on a valid
\* code, -10 down to 0 on an invalid one.
C38_CachedResultEnriched ==
    [][\A k \in SuggestCalls :
          (/\ suggest[k].pc = "parse"
           /\ suggest'[k].pc = "done"
           /\ cache'[suggest[k].cache_key].present
           /\ cache'[suggest[k].cache_key] # cache[suggest[k].cache_key])
          => LET base == GetSuggestions(suggest[k].llm_response)
                 stored == cache'[suggest[k].cache_key].value.suggestions
             IN /\ Len(stored) = Len(base)
                /\ \A i \in 1..Len(base) :
                      stored[i].score_confiance =
                         AdjustScore(base[i].score_confiance,
                                     validate_code(base[i].code,
                                                   suggest[k].extracted_info))]_vars

====
